---------------------------- MODULE Spec2Model ----------------------------
(***************************************************************************)
(* Train search page (script.js): the submit handler, searchTrains and its *)
(* completion paths, the renderer, the reveal timer, the key and input     *)
(* listeners, and the two pure functions calculateDuration and formatTime. *)
(*                                                                         *)
(* Strings are sequences of one-character strings, so that trim,           *)
(* toUpperCase, replace, split, includes and template literals are         *)
(* computed character by character as the script computes them.            *)
(***************************************************************************)
EXTENDS Integers, Sequences, FiniteSets

VARIABLES
    sourceField,       \* document.getElementById('sourceCode').value
    destinationField,  \* document.getElementById('destinationCode').value
    loadingDisplay,    \* loadingElement.style.display
    errorDisplay,      \* errorMessage.style.display
    errorText,         \* errorText.textContent
    resultsDisplay,    \* resultsContainer.style.display
    routeInfo,         \* routeInfo.innerHTML
    trainsList,        \* trainsList children
    timers,            \* reveal callbacks scheduled by setTimeout and not yet run
    fetches,           \* number of fetch(url) calls made so far
    pending,           \* searchTrains invocations suspended at an await
    event,             \* the handler that ran last, with its inputs
    departureTime,     \* argument of the pure-function calls
    arrivalTime,       \* argument of the pure-function calls
    durationOut,       \* last value returned by calculateDuration
    timeOut            \* last value returned by formatTime

uiVars == <<sourceField, destinationField, loadingDisplay, errorDisplay, errorText,
            resultsDisplay, routeInfo, trainsList, timers, fetches, pending, event>>
timeVars == <<departureTime, arrivalTime, durationOut, timeOut>>
vars == <<uiVars, timeVars>>

(***************************************************************************)
(* Bounds of the model.                                                    *)
(***************************************************************************)
\* Searches dispatched in one run.
MaxSearches == 2
\* Length of the text the user (or the browser) puts into a field.
MaxFieldLen == 1
\* Elements of a response array.
MaxTrains == 2
\* Minutes of the sampled clock times are the multiples of MinuteStep, and 59.
MinuteStep == 5

(***************************************************************************)
(* String literals of the script, and of the platform.                     *)
(***************************************************************************)
API_BASE_URL ==
    <<"h", "t", "t", "p", ":", "/", "/", "l", "o", "c", "a", "l", "h", "o", "s", "t", ":", "8",
       "0", "8", "0">>

SEARCH_ENDPOINT ==
    <<"/", "s", "e", "a", "r", "c", "h", "/", "b", "y", "-", "c", "o", "d", "e">>

MsgEnterBoth ==
    <<"P", "l", "e", "a", "s", "e", " ", "e", "n", "t", "e", "r", " ", "b", "o", "t", "h", " ",
       "s", "o", "u", "r", "c", "e", " ", "a", "n", "d", " ", "d", "e", "s", "t", "i", "n",
       "a", "t", "i", "o", "n", " ", "s", "t", "a", "t", "i", "o", "n", " ", "c", "o", "d",
       "e", "s", ".">>

MsgSameStation ==
    <<"S", "o", "u", "r", "c", "e", " ", "a", "n", "d", " ", "d", "e", "s", "t", "i", "n", "a",
       "t", "i", "o", "n", " ", "s", "t", "a", "t", "i", "o", "n", "s", " ", "c", "a", "n",
       "n", "o", "t", " ", "b", "e", " ", "t", "h", "e", " ", "s", "a", "m", "e", ".">>

MsgUnableToConnect ==
    <<"U", "n", "a", "b", "l", "e", " ", "t", "o", " ", "c", "o", "n", "n", "e", "c", "t", " ",
       "t", "o", " ", "t", "h", "e", " ", "s", "e", "r", "v", "e", "r", ".", " ", "P", "l",
       "e", "a", "s", "e", " ", "c", "h", "e", "c", "k", " ", "i", "f", " ", "t", "h", "e",
       " ", "A", "P", "I", " ", "i", "s", " ", "r", "u", "n", "n", "i", "n", "g", " ", "o",
       "n", " ", "h", "t", "t", "p", ":", "/", "/", "l", "o", "c", "a", "l", "h", "o", "s",
       "t", ":", "8", "0", "8", "0">>

SearchFailedPrefix ==
    <<"S", "e", "a", "r", "c", "h", " ", "f", "a", "i", "l", "e", "d", ":", " ">>

FailedToFetch ==
    <<"F", "a", "i", "l", "e", "d", " ", "t", "o", " ", "f", "e", "t", "c", "h">>

LoadFailed ==
    <<"L", "o", "a", "d", " ", "f", "a", "i", "l", "e", "d">>

JsonSyntaxMessage ==
    <<"U", "n", "e", "x", "p", "e", "c", "t", "e", "d", " ", "t", "o", "k", "e", "n", " ",
      "'", "<", "'", ",", " ", "\"", "<", "h", "t", "m", "l", ">", "\"", " ", "i", "s",
      " ", "n", "o", "t", " ", "v", "a", "l", "i", "d", " ", "J", "S", "O", "N">>

UndefinedReadMessage ==
    <<"C", "a", "n", "n", "o", "t", " ", "r", "e", "a", "d", " ", "p", "r", "o", "p", "e", "r",
       "t", "i", "e", "s", " ", "o", "f", " ", "u", "n", "d", "e", "f", "i", "n", "e", "d",
       " ", "(", "r", "e", "a", "d", "i", "n", "g", " ", "'", "s", "t", "a", "t", "i", "o",
       "n", "N", "a", "m", "e", "'", ")">>

QuerySource ==
    <<"?", "s", "o", "u", "r", "c", "e", "C", "o", "d", "e", "=">>

QueryDestination ==
    <<"&", "d", "e", "s", "t", "i", "n", "a", "t", "i", "o", "n", "C", "o", "d", "e", "=">>

LowerLetters ==
    <<"a", "b", "c", "d", "e", "f", "g", "h", "i", "j", "k", "l", "m", "n", "o", "p", "q", "r",
       "s", "t", "u", "v", "w", "x", "y", "z">>

UpperLetters ==
    <<"A", "B", "C", "D", "E", "F", "G", "H", "I", "J", "K", "L", "M", "N", "O", "P", "Q", "R",
       "S", "T", "U", "V", "W", "X", "Y", "Z">>

DigitChars ==
    <<"0", "1", "2", "3", "4", "5", "6", "7", "8", "9">>

UnreservedMarks ==
    <<"-", "_", ".", "!", "~", "*", "'", "(", ")">>

\* The characters this model knows, in the order of their code points: those
\* from U+0001 to U+05FF, U+1680, U+2080 to U+20FF, U+2180 to U+21FF and
\* U+FEFF, and the upper case of each, that a string of this language can
\* hold (it cannot hold the grave accent U+0060 nor a character above U+007F
\* whose low byte is below 80).  The operators on characters are defined on
\* these and on no other.
KnownChars ==
    <<"", "", "", "", "", "", "", "", "\t", "\n", "", "\f", "\r", "", "", "", "",
      "", "", "", "", "", "", "", "", "", "", "", "", "", "", " ", "!", "\"",
      "#", "$", "%", "&", "'", "(", ")", "*", "+", ",", "-", ".", "/", "0", "1", "2", "3", "4",
      "5", "6", "7", "8", "9", ":", ";", "<", "=", ">", "?", "@", "A", "B", "C", "D", "E", "F",
      "G", "H", "I", "J", "K", "L", "M", "N", "O", "P", "Q", "R", "S", "T", "U", "V", "W", "X",
      "Y", "Z", "[", "\\", "]", "^", "_", "a", "b", "c", "d", "e", "f", "g", "h", "i", "j",
      "k", "l", "m", "n", "o", "p", "q", "r", "s", "t", "u", "v", "w", "x", "y", "z", "{", "|",
      "}", "~", "", "", "", "", "", "", "", "", "", "", "", "", "", "", "", "",
      "", "", "", "", "", "", "", "", "", "", "", "", "", "", "", "", "", " ",
      "¡", "¢", "£", "¤", "¥", "¦", "§", "¨", "©", "ª", "«", "¬", "­", "®", "¯", "°", "±", "²",
      "³", "´", "µ", "¶", "·", "¸", "¹", "º", "»", "¼", "½", "¾", "¿", "À", "Á", "Â", "Ã", "Ä",
      "Å", "Æ", "Ç", "È", "É", "Ê", "Ë", "Ì", "Í", "Î", "Ï", "Ð", "Ñ", "Ò", "Ó", "Ô", "Õ", "Ö",
      "×", "Ø", "Ù", "Ú", "Û", "Ü", "Ý", "Þ", "ß", "à", "á", "â", "ã", "ä", "å", "æ", "ç", "è",
      "é", "ê", "ë", "ì", "í", "î", "ï", "ð", "ñ", "ò", "ó", "ô", "õ", "ö", "÷", "ø", "ù", "ú",
      "û", "ü", "ý", "þ", "ÿ", "ƀ", "Ɓ", "Ƃ", "ƃ", "Ƅ", "ƅ", "Ɔ", "Ƈ", "ƈ", "Ɖ", "Ɗ", "Ƌ", "ƌ",
      "ƍ", "Ǝ", "Ə", "Ɛ", "Ƒ", "ƒ", "Ɠ", "Ɣ", "ƕ", "Ɩ", "Ɨ", "Ƙ", "ƙ", "ƚ", "ƛ", "Ɯ", "Ɲ", "ƞ",
      "Ɵ", "Ơ", "ơ", "Ƣ", "ƣ", "Ƥ", "ƥ", "Ʀ", "Ƨ", "ƨ", "Ʃ", "ƪ", "ƫ", "Ƭ", "ƭ", "Ʈ", "Ư", "ư",
      "Ʊ", "Ʋ", "Ƴ", "ƴ", "Ƶ", "ƶ", "Ʒ", "Ƹ", "ƹ", "ƺ", "ƻ", "Ƽ", "ƽ", "ƾ", "ƿ", "ǀ", "ǁ", "ǂ",
      "ǃ", "Ǆ", "ǅ", "ǆ", "Ǉ", "ǈ", "ǉ", "Ǌ", "ǋ", "ǌ", "Ǎ", "ǎ", "Ǐ", "ǐ", "Ǒ", "ǒ", "Ǔ", "ǔ",
      "Ǖ", "ǖ", "Ǘ", "ǘ", "Ǚ", "ǚ", "Ǜ", "ǜ", "ǝ", "Ǟ", "ǟ", "Ǡ", "ǡ", "Ǣ", "ǣ", "Ǥ", "ǥ", "Ǧ",
      "ǧ", "Ǩ", "ǩ", "Ǫ", "ǫ", "Ǭ", "ǭ", "Ǯ", "ǯ", "ǰ", "Ǳ", "ǲ", "ǳ", "Ǵ", "ǵ", "Ƕ", "Ƿ", "Ǹ",
      "ǹ", "Ǻ", "ǻ", "Ǽ", "ǽ", "Ǿ", "ǿ", "ʀ", "ʁ", "ʂ", "ʃ", "ʄ", "ʅ", "ʆ", "ʇ", "ʈ", "ʉ", "ʊ",
      "ʋ", "ʌ", "ʍ", "ʎ", "ʏ", "ʐ", "ʑ", "ʒ", "ʓ", "ʔ", "ʕ", "ʖ", "ʗ", "ʘ", "ʙ", "ʚ", "ʛ", "ʜ",
      "ʝ", "ʞ", "ʟ", "ʠ", "ʡ", "ʢ", "ʣ", "ʤ", "ʥ", "ʦ", "ʧ", "ʨ", "ʩ", "ʪ", "ʫ", "ʬ", "ʭ", "ʮ",
      "ʯ", "ʰ", "ʱ", "ʲ", "ʳ", "ʴ", "ʵ", "ʶ", "ʷ", "ʸ", "ʹ", "ʺ", "ʻ", "ʼ", "ʽ", "ʾ", "ʿ", "ˀ",
      "ˁ", "˂", "˃", "˄", "˅", "ˆ", "ˇ", "ˈ", "ˉ", "ˊ", "ˋ", "ˌ", "ˍ", "ˎ", "ˏ", "ː", "ˑ", "˒",
      "˓", "˔", "˕", "˖", "˗", "˘", "˙", "˚", "˛", "˜", "˝", "˞", "˟", "ˠ", "ˡ", "ˢ", "ˣ", "ˤ",
      "˥", "˦", "˧", "˨", "˩", "˪", "˫", "ˬ", "˭", "ˮ", "˯", "˰", "˱", "˲", "˳", "˴", "˵", "˶",
      "˷", "˸", "˹", "˺", "˻", "˼", "˽", "˾", "˿", "΀", "΁", "΂", "΃", "΄", "΅", "Ά", "·", "Έ",
      "Ή", "Ί", "΋", "Ό", "΍", "Ύ", "Ώ", "ΐ", "Α", "Β", "Γ", "Δ", "Ε", "Ζ", "Η", "Θ", "Ι", "Κ",
      "Λ", "Μ", "Ν", "Ξ", "Ο", "Π", "Ρ", "΢", "Σ", "Τ", "Υ", "Φ", "Χ", "Ψ", "Ω", "Ϊ", "Ϋ", "ά",
      "έ", "ή", "ί", "ΰ", "α", "β", "γ", "δ", "ε", "ζ", "η", "θ", "ι", "κ", "λ", "μ", "ν", "ξ",
      "ο", "π", "ρ", "ς", "σ", "τ", "υ", "φ", "χ", "ψ", "ω", "ϊ", "ϋ", "ό", "ύ", "ώ", "Ϗ", "ϐ",
      "ϑ", "ϒ", "ϓ", "ϔ", "ϕ", "ϖ", "ϗ", "Ϙ", "ϙ", "Ϛ", "ϛ", "Ϝ", "ϝ", "Ϟ", "ϟ", "Ϡ", "ϡ", "Ϣ",
      "ϣ", "Ϥ", "ϥ", "Ϧ", "ϧ", "Ϩ", "ϩ", "Ϫ", "ϫ", "Ϭ", "ϭ", "Ϯ", "ϯ", "ϰ", "ϱ", "ϲ", "ϳ", "ϴ",
      "ϵ", "϶", "Ϸ", "ϸ", "Ϲ", "Ϻ", "ϻ", "ϼ", "Ͻ", "Ͼ", "Ͽ", "Ҁ", "ҁ", "҂", "҃", "҄", "҅", "҆",
      "҇", "҈", "҉", "Ҋ", "ҋ", "Ҍ", "ҍ", "Ҏ", "ҏ", "Ґ", "ґ", "Ғ", "ғ", "Ҕ", "ҕ", "Җ", "җ", "Ҙ",
      "ҙ", "Қ", "қ", "Ҝ", "ҝ", "Ҟ", "ҟ", "Ҡ", "ҡ", "Ң", "ң", "Ҥ", "ҥ", "Ҧ", "ҧ", "Ҩ", "ҩ", "Ҫ",
      "ҫ", "Ҭ", "ҭ", "Ү", "ү", "Ұ", "ұ", "Ҳ", "ҳ", "Ҵ", "ҵ", "Ҷ", "ҷ", "Ҹ", "ҹ", "Һ", "һ", "Ҽ",
      "ҽ", "Ҿ", "ҿ", "Ӏ", "Ӂ", "ӂ", "Ӄ", "ӄ", "Ӆ", "ӆ", "Ӈ", "ӈ", "Ӊ", "ӊ", "Ӌ", "ӌ", "Ӎ", "ӎ",
      "ӏ", "Ӑ", "ӑ", "Ӓ", "ӓ", "Ӕ", "ӕ", "Ӗ", "ӗ", "Ә", "ә", "Ӛ", "ӛ", "Ӝ", "ӝ", "Ӟ", "ӟ", "Ӡ",
      "ӡ", "Ӣ", "ӣ", "Ӥ", "ӥ", "Ӧ", "ӧ", "Ө", "ө", "Ӫ", "ӫ", "Ӭ", "ӭ", "Ӯ", "ӯ", "Ӱ", "ӱ", "Ӳ",
      "ӳ", "Ӵ", "ӵ", "Ӷ", "ӷ", "Ӹ", "ӹ", "Ӻ", "ӻ", "Ӽ", "ӽ", "Ӿ", "ӿ", "ր", "ց", "ւ", "փ", "ք",
      "օ", "ֆ", "և", "ֈ", "։", "֊", "֋", "֌", "֍", "֎", "֏", "֐", "֑", "֒", "֓", "֔", "֕", "֖",
      "֗", "֘", "֙", "֚", "֛", "֜", "֝", "֞", "֟", "֠", "֡", "֢", "֣", "֤", "֥", "֦", "֧", "֨",
      "֩", "֪", "֫", "֬", "֭", "֮", "֯", "ְ", "ֱ", "ֲ", "ֳ", "ִ", "ֵ", "ֶ", "ַ", "ָ", "ֹ", "ֺ",
      "ֻ", "ּ", "ֽ", "־", "ֿ", "׀", "ׁ", "ׂ", "׃", "ׄ", "ׅ", "׆", "ׇ", "׈", "׉", "׊", "׋", "׌",
      "׍", "׎", "׏", "א", "ב", "ג", "ד", "ה", "ו", "ז", "ח", "ט", "י", "ך", "כ", "ל", "ם", "מ",
      "ן", "נ", "ס", "ע", "ף", "פ", "ץ", "צ", "ק", "ר", "ש", "ת", "׫", "׬", "׭", "׮", "ׯ", "װ",
      "ױ", "ײ", "׳", "״", "׵", "׶", "׷", "׸", "׹", "׺", "׻", "׼", "׽", "׾", "׿", " ", "₀", "₁",
      "₂", "₃", "₄", "₅", "₆", "₇", "₈", "₉", "₊", "₋", "₌", "₍", "₎", "₏", "ₐ", "ₑ", "ₒ", "ₓ",
      "ₔ", "ₕ", "ₖ", "ₗ", "ₘ", "ₙ", "ₚ", "ₛ", "ₜ", "₝", "₞", "₟", "₠", "₡", "₢", "₣", "₤", "₥",
      "₦", "₧", "₨", "₩", "₪", "₫", "€", "₭", "₮", "₯", "₰", "₱", "₲", "₳", "₴", "₵", "₶", "₷",
      "₸", "₹", "₺", "₻", "₼", "₽", "₾", "₿", "⃀", "⃁", "⃂", "⃃", "⃄", "⃅", "⃆", "⃇", "⃈", "⃉",
      "⃊", "⃋", "⃌", "⃍", "⃎", "⃏", "⃐", "⃑", "⃒", "⃓", "⃔", "⃕", "⃖", "⃗", "⃘", "⃙", "⃚", "⃛",
      "⃜", "⃝", "⃞", "⃟", "⃠", "⃡", "⃢", "⃣", "⃤", "⃥", "⃦", "⃧", "⃨", "⃩", "⃪", "⃫", "⃬", "⃭",
      "⃮", "⃯", "⃰", "⃱", "⃲", "⃳", "⃴", "⃵", "⃶", "⃷", "⃸", "⃹", "⃺", "⃻", "⃼", "⃽", "⃾", "⃿",
      "ↀ", "ↁ", "ↂ", "Ↄ", "ↄ", "ↅ", "ↆ", "ↇ", "ↈ", "↉", "↊", "↋", "↌", "↍", "↎", "↏", "←", "↑",
      "→", "↓", "↔", "↕", "↖", "↗", "↘", "↙", "↚", "↛", "↜", "↝", "↞", "↟", "↠", "↡", "↢", "↣",
      "↤", "↥", "↦", "↧", "↨", "↩", "↪", "↫", "↬", "↭", "↮", "↯", "↰", "↱", "↲", "↳", "↴", "↵",
      "↶", "↷", "↸", "↹", "↺", "↻", "↼", "↽", "↾", "↿", "⇀", "⇁", "⇂", "⇃", "⇄", "⇅", "⇆", "⇇",
      "⇈", "⇉", "⇊", "⇋", "⇌", "⇍", "⇎", "⇏", "⇐", "⇑", "⇒", "⇓", "⇔", "⇕", "⇖", "⇗", "⇘", "⇙",
      "⇚", "⇛", "⇜", "⇝", "⇞", "⇟", "⇠", "⇡", "⇢", "⇣", "⇤", "⇥", "⇦", "⇧", "⇨", "⇩", "⇪", "⇫",
      "⇬", "⇭", "⇮", "⇯", "⇰", "⇱", "⇲", "⇳", "⇴", "⇵", "⇶", "⇷", "⇸", "⇹", "⇺", "⇻", "⇼", "⇽",
      "⇾", "⇿", "Ʞ", "Ʇ", "Ʝ", "Ʂ", "Ƛ", "﻿">>

\* The code point of each, in the same order.
CodePoints ==
    <<1, 2, 3, 4, 5, 6, 7, 8, 9, 10, 11, 12, 13, 14, 15, 16, 17, 18, 19, 20, 21, 22, 23, 24,
      25, 26, 27, 28, 29, 30, 31, 32, 33, 34, 35, 36, 37, 38, 39, 40, 41, 42, 43, 44, 45, 46,
      47, 48, 49, 50, 51, 52, 53, 54, 55, 56, 57, 58, 59, 60, 61, 62, 63, 64, 65, 66, 67, 68,
      69, 70, 71, 72, 73, 74, 75, 76, 77, 78, 79, 80, 81, 82, 83, 84, 85, 86, 87, 88, 89, 90,
      91, 92, 93, 94, 95, 97, 98, 99, 100, 101, 102, 103, 104, 105, 106, 107, 108, 109, 110,
      111, 112, 113, 114, 115, 116, 117, 118, 119, 120, 121, 122, 123, 124, 125, 126, 127, 128,
      129, 130, 131, 132, 133, 134, 135, 136, 137, 138, 139, 140, 141, 142, 143, 144, 145, 146,
      147, 148, 149, 150, 151, 152, 153, 154, 155, 156, 157, 158, 159, 160, 161, 162, 163, 164,
      165, 166, 167, 168, 169, 170, 171, 172, 173, 174, 175, 176, 177, 178, 179, 180, 181, 182,
      183, 184, 185, 186, 187, 188, 189, 190, 191, 192, 193, 194, 195, 196, 197, 198, 199, 200,
      201, 202, 203, 204, 205, 206, 207, 208, 209, 210, 211, 212, 213, 214, 215, 216, 217, 218,
      219, 220, 221, 222, 223, 224, 225, 226, 227, 228, 229, 230, 231, 232, 233, 234, 235, 236,
      237, 238, 239, 240, 241, 242, 243, 244, 245, 246, 247, 248, 249, 250, 251, 252, 253, 254,
      255, 384, 385, 386, 387, 388, 389, 390, 391, 392, 393, 394, 395, 396, 397, 398, 399, 400,
      401, 402, 403, 404, 405, 406, 407, 408, 409, 410, 411, 412, 413, 414, 415, 416, 417, 418,
      419, 420, 421, 422, 423, 424, 425, 426, 427, 428, 429, 430, 431, 432, 433, 434, 435, 436,
      437, 438, 439, 440, 441, 442, 443, 444, 445, 446, 447, 448, 449, 450, 451, 452, 453, 454,
      455, 456, 457, 458, 459, 460, 461, 462, 463, 464, 465, 466, 467, 468, 469, 470, 471, 472,
      473, 474, 475, 476, 477, 478, 479, 480, 481, 482, 483, 484, 485, 486, 487, 488, 489, 490,
      491, 492, 493, 494, 495, 496, 497, 498, 499, 500, 501, 502, 503, 504, 505, 506, 507, 508,
      509, 510, 511, 640, 641, 642, 643, 644, 645, 646, 647, 648, 649, 650, 651, 652, 653, 654,
      655, 656, 657, 658, 659, 660, 661, 662, 663, 664, 665, 666, 667, 668, 669, 670, 671, 672,
      673, 674, 675, 676, 677, 678, 679, 680, 681, 682, 683, 684, 685, 686, 687, 688, 689, 690,
      691, 692, 693, 694, 695, 696, 697, 698, 699, 700, 701, 702, 703, 704, 705, 706, 707, 708,
      709, 710, 711, 712, 713, 714, 715, 716, 717, 718, 719, 720, 721, 722, 723, 724, 725, 726,
      727, 728, 729, 730, 731, 732, 733, 734, 735, 736, 737, 738, 739, 740, 741, 742, 743, 744,
      745, 746, 747, 748, 749, 750, 751, 752, 753, 754, 755, 756, 757, 758, 759, 760, 761, 762,
      763, 764, 765, 766, 767, 896, 897, 898, 899, 900, 901, 902, 903, 904, 905, 906, 907, 908,
      909, 910, 911, 912, 913, 914, 915, 916, 917, 918, 919, 920, 921, 922, 923, 924, 925, 926,
      927, 928, 929, 930, 931, 932, 933, 934, 935, 936, 937, 938, 939, 940, 941, 942, 943, 944,
      945, 946, 947, 948, 949, 950, 951, 952, 953, 954, 955, 956, 957, 958, 959, 960, 961, 962,
      963, 964, 965, 966, 967, 968, 969, 970, 971, 972, 973, 974, 975, 976, 977, 978, 979, 980,
      981, 982, 983, 984, 985, 986, 987, 988, 989, 990, 991, 992, 993, 994, 995, 996, 997, 998,
      999, 1000, 1001, 1002, 1003, 1004, 1005, 1006, 1007, 1008, 1009, 1010, 1011, 1012, 1013,
      1014, 1015, 1016, 1017, 1018, 1019, 1020, 1021, 1022, 1023, 1152, 1153, 1154, 1155, 1156,
      1157, 1158, 1159, 1160, 1161, 1162, 1163, 1164, 1165, 1166, 1167, 1168, 1169, 1170, 1171,
      1172, 1173, 1174, 1175, 1176, 1177, 1178, 1179, 1180, 1181, 1182, 1183, 1184, 1185, 1186,
      1187, 1188, 1189, 1190, 1191, 1192, 1193, 1194, 1195, 1196, 1197, 1198, 1199, 1200, 1201,
      1202, 1203, 1204, 1205, 1206, 1207, 1208, 1209, 1210, 1211, 1212, 1213, 1214, 1215, 1216,
      1217, 1218, 1219, 1220, 1221, 1222, 1223, 1224, 1225, 1226, 1227, 1228, 1229, 1230, 1231,
      1232, 1233, 1234, 1235, 1236, 1237, 1238, 1239, 1240, 1241, 1242, 1243, 1244, 1245, 1246,
      1247, 1248, 1249, 1250, 1251, 1252, 1253, 1254, 1255, 1256, 1257, 1258, 1259, 1260, 1261,
      1262, 1263, 1264, 1265, 1266, 1267, 1268, 1269, 1270, 1271, 1272, 1273, 1274, 1275, 1276,
      1277, 1278, 1279, 1408, 1409, 1410, 1411, 1412, 1413, 1414, 1415, 1416, 1417, 1418, 1419,
      1420, 1421, 1422, 1423, 1424, 1425, 1426, 1427, 1428, 1429, 1430, 1431, 1432, 1433, 1434,
      1435, 1436, 1437, 1438, 1439, 1440, 1441, 1442, 1443, 1444, 1445, 1446, 1447, 1448, 1449,
      1450, 1451, 1452, 1453, 1454, 1455, 1456, 1457, 1458, 1459, 1460, 1461, 1462, 1463, 1464,
      1465, 1466, 1467, 1468, 1469, 1470, 1471, 1472, 1473, 1474, 1475, 1476, 1477, 1478, 1479,
      1480, 1481, 1482, 1483, 1484, 1485, 1486, 1487, 1488, 1489, 1490, 1491, 1492, 1493, 1494,
      1495, 1496, 1497, 1498, 1499, 1500, 1501, 1502, 1503, 1504, 1505, 1506, 1507, 1508, 1509,
      1510, 1511, 1512, 1513, 1514, 1515, 1516, 1517, 1518, 1519, 1520, 1521, 1522, 1523, 1524,
      1525, 1526, 1527, 1528, 1529, 1530, 1531, 1532, 1533, 1534, 1535, 5760, 8320, 8321, 8322,
      8323, 8324, 8325, 8326, 8327, 8328, 8329, 8330, 8331, 8332, 8333, 8334, 8335, 8336, 8337,
      8338, 8339, 8340, 8341, 8342, 8343, 8344, 8345, 8346, 8347, 8348, 8349, 8350, 8351, 8352,
      8353, 8354, 8355, 8356, 8357, 8358, 8359, 8360, 8361, 8362, 8363, 8364, 8365, 8366, 8367,
      8368, 8369, 8370, 8371, 8372, 8373, 8374, 8375, 8376, 8377, 8378, 8379, 8380, 8381, 8382,
      8383, 8384, 8385, 8386, 8387, 8388, 8389, 8390, 8391, 8392, 8393, 8394, 8395, 8396, 8397,
      8398, 8399, 8400, 8401, 8402, 8403, 8404, 8405, 8406, 8407, 8408, 8409, 8410, 8411, 8412,
      8413, 8414, 8415, 8416, 8417, 8418, 8419, 8420, 8421, 8422, 8423, 8424, 8425, 8426, 8427,
      8428, 8429, 8430, 8431, 8432, 8433, 8434, 8435, 8436, 8437, 8438, 8439, 8440, 8441, 8442,
      8443, 8444, 8445, 8446, 8447, 8576, 8577, 8578, 8579, 8580, 8581, 8582, 8583, 8584, 8585,
      8586, 8587, 8588, 8589, 8590, 8591, 8592, 8593, 8594, 8595, 8596, 8597, 8598, 8599, 8600,
      8601, 8602, 8603, 8604, 8605, 8606, 8607, 8608, 8609, 8610, 8611, 8612, 8613, 8614, 8615,
      8616, 8617, 8618, 8619, 8620, 8621, 8622, 8623, 8624, 8625, 8626, 8627, 8628, 8629, 8630,
      8631, 8632, 8633, 8634, 8635, 8636, 8637, 8638, 8639, 8640, 8641, 8642, 8643, 8644, 8645,
      8646, 8647, 8648, 8649, 8650, 8651, 8652, 8653, 8654, 8655, 8656, 8657, 8658, 8659, 8660,
      8661, 8662, 8663, 8664, 8665, 8666, 8667, 8668, 8669, 8670, 8671, 8672, 8673, 8674, 8675,
      8676, 8677, 8678, 8679, 8680, 8681, 8682, 8683, 8684, 8685, 8686, 8687, 8688, 8689, 8690,
      8691, 8692, 8693, 8694, 8695, 8696, 8697, 8698, 8699, 8700, 8701, 8702, 8703, 42928,
      42929, 42930, 42949, 42972, 65279>>

\* The characters above U+007F that String.prototype.toUpperCase changes,
\* and what it makes of each.
LowerChars ==
    <<"µ", "ß", "à", "á", "â", "ã", "ä", "å", "æ", "ç", "è", "é", "ê", "ë", "ì", "í", "î", "ï",
      "ð", "ñ", "ò", "ó", "ô", "õ", "ö", "ø", "ù", "ú", "û", "ü", "ý", "þ", "ƃ", "ƅ", "ƈ", "ƌ",
      "ƒ", "ƕ", "ƙ", "ƛ", "ơ", "ƣ", "ƥ", "ƨ", "ƭ", "ư", "ƴ", "ƶ", "ƹ", "ƽ", "ƿ", "ǅ", "ǆ", "ǈ",
      "ǉ", "ǋ", "ǌ", "ǎ", "ǐ", "ǒ", "ǔ", "ǖ", "ǘ", "ǚ", "ǜ", "ǝ", "ǟ", "ǡ", "ǣ", "ǥ", "ǧ", "ǩ",
      "ǫ", "ǭ", "ǯ", "ǲ", "ǳ", "ǵ", "ǹ", "ǻ", "ǽ", "ǿ", "ʀ", "ʂ", "ʃ", "ʇ", "ʈ", "ʊ", "ʋ", "ʒ",
      "ʝ", "ʞ", "ά", "έ", "ή", "ί", "α", "β", "γ", "δ", "ε", "ζ", "η", "θ", "ι", "κ", "λ", "μ",
      "ν", "ξ", "ο", "π", "ρ", "ς", "σ", "τ", "υ", "φ", "χ", "ψ", "ω", "ϊ", "ϋ", "ό", "ύ", "ώ",
      "ϐ", "ϑ", "ϕ", "ϖ", "ϗ", "ϙ", "ϛ", "ϝ", "ϟ", "ϡ", "ϣ", "ϥ", "ϧ", "ϩ", "ϫ", "ϭ", "ϯ", "ϰ",
      "ϱ", "ϲ", "ϵ", "ϸ", "ϻ", "ҁ", "ҋ", "ҍ", "ҏ", "ґ", "ғ", "ҕ", "җ", "ҙ", "қ", "ҝ", "ҟ", "ҡ",
      "ң", "ҥ", "ҧ", "ҩ", "ҫ", "ҭ", "ү", "ұ", "ҳ", "ҵ", "ҷ", "ҹ", "һ", "ҽ", "ҿ", "ӂ", "ӄ", "ӆ",
      "ӈ", "ӊ", "ӌ", "ӎ", "ӏ", "ӑ", "ӓ", "ӕ", "ӗ", "ә", "ӛ", "ӝ", "ӟ", "ӡ", "ӣ", "ӥ", "ӧ", "ө",
      "ӫ", "ӭ", "ӯ", "ӱ", "ӳ", "ӵ", "ӷ", "ӹ", "ӻ", "ӽ", "ӿ", "ↄ">>

UpperTexts ==
    <<<<"Μ">>, <<"S", "S">>, <<"À">>, <<"Á">>, <<"Â">>, <<"Ã">>, <<"Ä">>, <<"Å">>, <<"Æ">>,
      <<"Ç">>, <<"È">>, <<"É">>, <<"Ê">>, <<"Ë">>, <<"Ì">>, <<"Í">>, <<"Î">>, <<"Ï">>, <<"Ð">>,
      <<"Ñ">>, <<"Ò">>, <<"Ó">>, <<"Ô">>, <<"Õ">>, <<"Ö">>, <<"Ø">>, <<"Ù">>, <<"Ú">>, <<"Û">>,
      <<"Ü">>, <<"Ý">>, <<"Þ">>, <<"Ƃ">>, <<"Ƅ">>, <<"Ƈ">>, <<"Ƌ">>, <<"Ƒ">>, <<"Ƕ">>, <<"Ƙ">>,
      <<"Ƛ">>, <<"Ơ">>, <<"Ƣ">>, <<"Ƥ">>, <<"Ƨ">>, <<"Ƭ">>, <<"Ư">>, <<"Ƴ">>, <<"Ƶ">>, <<"Ƹ">>,
      <<"Ƽ">>, <<"Ƿ">>, <<"Ǆ">>, <<"Ǆ">>, <<"Ǉ">>, <<"Ǉ">>, <<"Ǌ">>, <<"Ǌ">>, <<"Ǎ">>, <<"Ǐ">>,
      <<"Ǒ">>, <<"Ǔ">>, <<"Ǖ">>, <<"Ǘ">>, <<"Ǚ">>, <<"Ǜ">>, <<"Ǝ">>, <<"Ǟ">>, <<"Ǡ">>, <<"Ǣ">>,
      <<"Ǥ">>, <<"Ǧ">>, <<"Ǩ">>, <<"Ǫ">>, <<"Ǭ">>, <<"Ǯ">>, <<"Ǳ">>, <<"Ǳ">>, <<"Ǵ">>, <<"Ǹ">>,
      <<"Ǻ">>, <<"Ǽ">>, <<"Ǿ">>, <<"Ʀ">>, <<"Ʂ">>, <<"Ʃ">>, <<"Ʇ">>, <<"Ʈ">>, <<"Ʊ">>, <<"Ʋ">>,
      <<"Ʒ">>, <<"Ʝ">>, <<"Ʞ">>, <<"Ά">>, <<"Έ">>, <<"Ή">>, <<"Ί">>, <<"Α">>, <<"Β">>, <<"Γ">>,
      <<"Δ">>, <<"Ε">>, <<"Ζ">>, <<"Η">>, <<"Θ">>, <<"Ι">>, <<"Κ">>, <<"Λ">>, <<"Μ">>, <<"Ν">>,
      <<"Ξ">>, <<"Ο">>, <<"Π">>, <<"Ρ">>, <<"Σ">>, <<"Σ">>, <<"Τ">>, <<"Υ">>, <<"Φ">>, <<"Χ">>,
      <<"Ψ">>, <<"Ω">>, <<"Ϊ">>, <<"Ϋ">>, <<"Ό">>, <<"Ύ">>, <<"Ώ">>, <<"Β">>, <<"Θ">>, <<"Φ">>,
      <<"Π">>, <<"Ϗ">>, <<"Ϙ">>, <<"Ϛ">>, <<"Ϝ">>, <<"Ϟ">>, <<"Ϡ">>, <<"Ϣ">>, <<"Ϥ">>, <<"Ϧ">>,
      <<"Ϩ">>, <<"Ϫ">>, <<"Ϭ">>, <<"Ϯ">>, <<"Κ">>, <<"Ρ">>, <<"Ϲ">>, <<"Ε">>, <<"Ϸ">>, <<"Ϻ">>,
      <<"Ҁ">>, <<"Ҋ">>, <<"Ҍ">>, <<"Ҏ">>, <<"Ґ">>, <<"Ғ">>, <<"Ҕ">>, <<"Җ">>, <<"Ҙ">>, <<"Қ">>,
      <<"Ҝ">>, <<"Ҟ">>, <<"Ҡ">>, <<"Ң">>, <<"Ҥ">>, <<"Ҧ">>, <<"Ҩ">>, <<"Ҫ">>, <<"Ҭ">>, <<"Ү">>,
      <<"Ұ">>, <<"Ҳ">>, <<"Ҵ">>, <<"Ҷ">>, <<"Ҹ">>, <<"Һ">>, <<"Ҽ">>, <<"Ҿ">>, <<"Ӂ">>, <<"Ӄ">>,
      <<"Ӆ">>, <<"Ӈ">>, <<"Ӊ">>, <<"Ӌ">>, <<"Ӎ">>, <<"Ӏ">>, <<"Ӑ">>, <<"Ӓ">>, <<"Ӕ">>, <<"Ӗ">>,
      <<"Ә">>, <<"Ӛ">>, <<"Ӝ">>, <<"Ӟ">>, <<"Ӡ">>, <<"Ӣ">>, <<"Ӥ">>, <<"Ӧ">>, <<"Ө">>, <<"Ӫ">>,
      <<"Ӭ">>, <<"Ӯ">>, <<"Ӱ">>, <<"Ӳ">>, <<"Ӵ">>, <<"Ӷ">>, <<"Ӹ">>, <<"Ӻ">>, <<"Ӽ">>, <<"Ӿ">>,
      <<"Ↄ">>>>

\* The characters whose upper case holds a character not among KnownChars.
UpperCaseOutside ==
    <<"ÿ", "ƀ", "ƚ", "ƞ", "ǰ", "ʉ", "ʌ", "ΐ", "ΰ", "ϳ", "ր", "ց", "ւ", "փ", "ք", "օ", "ֆ", "և">>

HexDigits ==
    <<"0", "1", "2", "3", "4", "5", "6", "7", "8", "9", "A", "B", "C", "D", "E", "F">>

\* The arrow of the route summary, one symbol.
Arrow == <<"->">>

(***************************************************************************)
(* String primitives of the language.                                      *)
(***************************************************************************)
IndexOf(c, s) ==
    IF \E i \in 1..Len(s) : s[i] = c
    THEN CHOOSE i \in 1..Len(s) : s[i] = c /\ \A j \in 1..(i - 1) : s[j] # c
    ELSE 0

IsLetter(c) == IndexOf(c, LowerLetters) > 0 \/ IndexOf(c, UpperLetters) > 0

IsDigit(c) == IndexOf(c, DigitChars) > 0

\* White space as String.prototype.trim removes it: tab, line feed, vertical
\* tab, form feed, carriage return, space, U+00A0, U+1680, U+FEFF.  (U+2000
\* to U+200A, U+2028, U+2029, U+202F, U+205F and U+3000 are white space as
\* well; a string of this language cannot hold them.)
IsSpace(c) == c \in {"\t", "\n", "", "\f", "\r", " ", " ", " ", "﻿"}

\* toUpperCase of one character: a to z by the two alphabets, the other
\* characters up to U+007F unchanged, those above by LowerChars.
UpperOf(c) ==
    LET k == IndexOf(c, KnownChars)
        l == IndexOf(c, LowerChars)
    IN  IF IndexOf(c, LowerLetters) > 0 THEN <<UpperLetters[IndexOf(c, LowerLetters)]>>
        ELSE IF CodePoints[k] < 128 THEN <<c>>
        ELSE IF l > 0 THEN UpperTexts[l]
        ELSE IF IndexOf(c, UpperCaseOutside) = 0 THEN <<c>>
        ELSE <<KnownChars[0]>>

\* String.prototype.toUpperCase
RECURSIVE ToUpperCase(_)
ToUpperCase(s) ==
    IF s = <<>> THEN <<>>
    ELSE UpperOf(s[1]) \o ToUpperCase(Tail(s))

\* String.prototype.trim
Trim(s) ==
    LET keep == {i \in 1..Len(s) : ~IsSpace(s[i])}
    IN  IF keep = {} THEN <<>>
        ELSE LET lo == CHOOSE i \in keep : \A j \in keep : i <= j
                 hi == CHOOSE i \in keep : \A j \in keep : j <= i
             IN  SubSeq(s, lo, hi)

\* String.prototype.includes
Includes(s, sub) ==
    \/ sub = <<>>
    \/ \E i \in 0..(Len(s) - Len(sub)) :
          s[i + 1] = sub[1] /\ SubSeq(s, i + 1, i + Len(sub)) = sub

\* String.prototype.split with a one-character separator
RECURSIVE Split(_, _)
Split(s, sep) ==
    LET k == IndexOf(sep, s)
    IN  IF k = 0 THEN <<s>>
        ELSE <<SubSeq(s, 1, k - 1)>> \o Split(SubSeq(s, k + 1, Len(s)), sep)

\* Number(string) for a string of decimal digits (Number("") is 0)
RECURSIVE Number(_)
Number(s) ==
    IF s = <<>> THEN 0
    ELSE 10 * Number(SubSeq(s, 1, Len(s) - 1)) + (IndexOf(s[Len(s)], DigitChars) - 1)

\* String(n) for a natural number, as a template literal prints it
RECURSIVE ToString(_)
ToString(n) ==
    IF n < 10 THEN <<DigitChars[n + 1]>>
    ELSE ToString(n \div 10) \o <<DigitChars[(n % 10) + 1]>>

\* The code point of a character of KnownChars.
CodePoint(c) == CodePoints[IndexOf(c, KnownChars)]

\* The UTF-8 bytes of a code point of the basic plane.
Utf8(cp) ==
    IF cp < 128 THEN <<cp>>
    ELSE IF cp < 2048 THEN <<192 + (cp \div 64), 128 + (cp % 64)>>
    ELSE <<224 + (cp \div 4096), 128 + ((cp \div 64) % 64), 128 + (cp % 64)>>

\* %XX for each byte.
RECURSIVE PercentEncode(_)
PercentEncode(bytes) ==
    IF bytes = <<>> THEN <<>>
    ELSE <<"%", HexDigits[(bytes[1] \div 16) + 1], HexDigits[(bytes[1] % 16) + 1]>>
         \o PercentEncode(Tail(bytes))

\* encodeURIComponent: letters, digits and the unreserved marks are kept,
\* every other character becomes the percent-encoding of its UTF-8 bytes.
RECURSIVE encodeURIComponent(_)
encodeURIComponent(s) ==
    IF s = <<>> THEN <<>>
    ELSE (IF IsLetter(s[1]) \/ IsDigit(s[1]) \/ IndexOf(s[1], UnreservedMarks) > 0
          THEN <<s[1]>>
          ELSE PercentEncode(Utf8(CodePoint(s[1]))))
         \o encodeURIComponent(Tail(s))

(***************************************************************************)
(* calculateDuration and formatTime.                                       *)
(***************************************************************************)
\* calculateDuration with <= for < in the next-day test.
calculateDurationRollsOverOnEqual(departure, arrival) ==
    LET dep == Split(departure, ":")
        arr == Split(arrival, ":")
        depTotalMinutes == Number(dep[1]) * 60 + Number(dep[2])
        arrTotal0 == Number(arr[1]) * 60 + Number(arr[2])
        arrTotalMinutes ==
            IF arrTotal0 <= depTotalMinutes THEN arrTotal0 + 24 * 60 ELSE arrTotal0
        durationMinutes == arrTotalMinutes - depTotalMinutes
    IN  ToString(durationMinutes \div 60) \o <<"h", " ">>
        \o ToString(durationMinutes % 60) \o <<"m">>

calculateDuration(departure, arrival) ==
    LET dep == Split(departure, ":")
        arr == Split(arrival, ":")
        depHours == Number(dep[1])
        depMinutes == Number(dep[2])
        arrHours == Number(arr[1])
        arrMinutes == Number(arr[2])
        depTotalMinutes == depHours * 60 + depMinutes
        arrTotal0 == arrHours * 60 + arrMinutes
        \* Handle next day arrival
        arrTotalMinutes ==
            IF arrTotal0 < depTotalMinutes THEN arrTotal0 + 24 * 60 ELSE arrTotal0
        durationMinutes == arrTotalMinutes - depTotalMinutes
        hours == durationMinutes \div 60
        minutes == durationMinutes % 60
    IN  ToString(hours) \o <<"h", " ">> \o ToString(minutes) \o <<"m">>

\* formatTime with > for >= in the choice of the period.
formatTimeNoonIsAM(timeString) ==
    LET parts == Split(timeString, ":")
        hour12 == IF Number(parts[1]) % 12 # 0 THEN Number(parts[1]) % 12 ELSE 12
        ampm == IF Number(parts[1]) > 12 THEN <<"P", "M">> ELSE <<"A", "M">>
    IN  ToString(hour12) \o <<":">> \o parts[2] \o <<" ">> \o ampm

formatTime(timeString) ==
    LET parts == Split(timeString, ":")
        hours == parts[1]
        minutes == parts[2]
        \* hours % 12 || 12: the string is converted to a number
        hour12 == IF Number(hours) % 12 # 0 THEN Number(hours) % 12 ELSE 12
        ampm == IF Number(hours) >= 12 THEN <<"P", "M">> ELSE <<"A", "M">>
    IN  ToString(hour12) \o <<":">> \o minutes \o <<" ">> \o ampm

(***************************************************************************)
(* Data of the environment: field texts, transport outcomes, responses.    *)
(***************************************************************************)
FieldChars == {"a", "B", " "}

RECURSIVE TextsOfLen(_)
TextsOfLen(n) ==
    IF n = 0 THEN {<<>>}
    ELSE {Append(t, c) : t \in TextsOfLen(n - 1), c \in FieldChars}

\* Every text of at most MaxFieldLen characters.
Texts == UNION {TextsOfLen(n) : n \in 0..MaxFieldLen}

\* What the user can type: the characters above, and a digit.
TypedChars == FieldChars \cup {"1"}

RECURSIVE TypedTextsOfLen(_)
TypedTextsOfLen(n) ==
    IF n = 0 THEN {<<>>}
    ELSE {Append(t, c) : t \in TypedTextsOfLen(n - 1), c \in TypedChars}

\* Every typed text of at most MaxFieldLen characters.
TypedTexts == UNION {TypedTextsOfLen(n) : n \in 0..MaxFieldLen}

\* What a rejected fetch promise carries: a TypeError whose message is the
\* engine's (Chromium's, WebKit's).
TransportErrors ==
    {[name |-> "TypeError", message |-> m] :
        m \in {FailedToFetch, LoadFailed}}

\* Responses the fetch promise resolves with.
Responses ==
    {[status |-> 200, statusText |-> <<"O", "K">>],
     [status |-> 404, statusText |-> <<"N", "o", "t", " ", "F", "o", "u", "n", "d">>],
     [status |-> 500, statusText |-> <<>>]}

\* Response.ok
Ok(response) == response.status \in 200..299

\* Outcomes of the fetch promise.
Settlements ==
    {[rejected |-> TRUE, error |-> e] : e \in TransportErrors}
    \cup {[rejected |-> FALSE, response |-> r] : r \in Responses}

Agra == [stationCode |-> <<"A">>, stationName |-> <<"A", "g", "r", "a">>]
Bhopal == [stationCode |-> <<"B">>, stationName |-> <<"B", "h", "o", "p", "a", "l">>]

DayTrain ==
    [source |-> Agra, destination |-> Bhopal,
     train |-> [trainNumber |-> <<"1", "2">>, trainName |-> <<"R", "a", "j">>],
     departureTime |-> <<"0", "9", ":", "1", "5">>,
     arrivalTime |-> <<"1", "1", ":", "4", "5">>]

NightTrain ==
    [source |-> Bhopal, destination |-> Agra,
     train |-> [trainNumber |-> <<"7">>, trainName |-> <<"M", "a", "i", "l">>],
     departureTime |-> <<"2", "3", ":", "3", "0">>,
     arrivalTime |-> <<"0", "0", ":", "1", "5">>]

\* An element without source and destination.
BareTrain ==
    [train |-> [trainNumber |-> <<"9">>, trainName |-> <<"X">>],
     departureTime |-> <<"1", "2", ":", "0", "0">>,
     arrivalTime |-> <<"1", "3", ":", "0", "0">>]

Elements == {DayTrain, NightTrain, BareTrain}

\* Arrays of n elements, one element per train.
RECURSIVE ArraysOfLen(_)
ArraysOfLen(n) ==
    IF n = 0 THEN {<<>>}
    ELSE {Append(a, t) : a \in ArraysOfLen(n - 1), t \in Elements}
         \ {a \in [1..n -> Elements] : \E i, j \in 1..n : i < j /\ a[i] = a[j]}

\* Outcomes of response.json(): a rejection, null, or an array.
Bodies ==
    {[parsed |-> FALSE, error |-> [name |-> "SyntaxError", message |-> JsonSyntaxMessage]],
     [parsed |-> TRUE, null |-> TRUE, data |-> <<>>]}
    \cup {[parsed |-> TRUE, null |-> FALSE, data |-> a] :
            a \in UNION {ArraysOfLen(n) : n \in 0..MaxTrains}}

NoError == [name |-> "none", message |-> <<>>]

\* Reading .stationName of an undefined source or destination.
UndefinedRead == [name |-> "TypeError", message |-> UndefinedReadMessage]

(***************************************************************************)
(* The page: every function of the script maps a page to a page.  A page   *)
(* is the record of the display surface, the scheduled timers, the fetch   *)
(* calls made, the suspended invocations, and the exception in flight.     *)
(***************************************************************************)
Page ==
    [loadingDisplay |-> loadingDisplay, errorDisplay |-> errorDisplay,
     errorText |-> errorText, resultsDisplay |-> resultsDisplay,
     routeInfo |-> routeInfo, trainsList |-> trainsList, timers |-> timers,
     fetches |-> fetches, pending |-> pending, thrown |-> NoError]

showLoading(p) == [p EXCEPT !.loadingDisplay = "block"]

hideLoading(p) == [p EXCEPT !.loadingDisplay = "none"]

showError(p, message) == [p EXCEPT !.errorText = message, !.errorDisplay = "block"]

hideError(p) == [p EXCEPT !.errorDisplay = "none"]

hideResults(p) == [p EXCEPT !.resultsDisplay = "none"]

\* showNoResults with the error panel hidden as well.
showNoResultsHidesError(p, sourceCode, destinationCode) ==
    [p EXCEPT
        !.trainsList = <<[class |-> "no-results", sourceCode |-> sourceCode,
                          destinationCode |-> destinationCode]>>,
        !.routeInfo = sourceCode \o <<" ">> \o Arrow \o <<" ">> \o destinationCode,
        !.resultsDisplay = "block",
        !.errorDisplay = "none"]

showNoResults(p, sourceCode, destinationCode) ==
    [p EXCEPT
        !.trainsList = <<[class |-> "no-results", sourceCode |-> sourceCode,
                          destinationCode |-> destinationCode]>>,
        !.routeInfo = sourceCode \o <<" ">> \o Arrow \o <<" ">> \o destinationCode,
        !.resultsDisplay = "block"]

\* Whether building the card (or the route summary) of this element throws.
ReadsUndefined(trainData) ==
    "source" \notin DOMAIN trainData \/ "destination" \notin DOMAIN trainData

createTrainCard(trainData, index) ==
    [class |-> "train-card",
     animationDelay |-> index,
     trainName |-> trainData.train.trainName,
     trainNumber |-> trainData.train.trainNumber,
     departure |-> formatTime(trainData.departureTime),
     sourceName |-> trainData.source.stationName,
     sourceCode |-> trainData.source.stationCode,
     duration |-> calculateDuration(trainData.departureTime, trainData.arrivalTime),
     arrival |-> formatTime(trainData.arrivalTime),
     destinationName |-> trainData.destination.stationName,
     destinationCode |-> trainData.destination.stationCode]

Spaces(n) == [i \in 1..n |-> " "]

\* The template literal assigned to routeInfo.innerHTML, line breaks included.
RouteOf(firstTrain) ==
    <<"\n">> \o Spaces(12)
    \o firstTrain.source.stationName \o <<" ", "(">> \o firstTrain.source.stationCode
    \o <<")", " ", "\n">> \o Spaces(12) \o Arrow \o <<" ">>
    \o firstTrain.destination.stationName \o <<" ", "(">>
    \o firstTrain.destination.stationCode \o <<")", "\n">> \o Spaces(8)

displayResults(p, trains, sourceCode, destinationCode) ==
    IF Len(trains) > 0 /\ ReadsUndefined(trains[1])
    THEN [p EXCEPT !.thrown = UndefinedRead]
    ELSE LET routed == IF Len(trains) > 0
                       THEN [p EXCEPT !.routeInfo = RouteOf(trains[1])]
                       ELSE p
             \* the cards appended before forEach meets an element that throws
             bad == {i \in 1..Len(trains) : ReadsUndefined(trains[i])}
             n == IF bad = {} THEN Len(trains)
                  ELSE (CHOOSE i \in bad : \A j \in bad : i <= j) - 1
             drawn == [routed EXCEPT
                          !.trainsList = [i \in 1..n |-> createTrainCard(trains[i], i - 1)]]
         IN  IF n < Len(trains)
             THEN [drawn EXCEPT !.thrown = UndefinedRead]
             ELSE [drawn EXCEPT !.timers = @ + 1]

(***************************************************************************)
(* searchTrains, split at its two awaits.                                  *)
(***************************************************************************)
\* The catch block without its hideLoading().
searchTrainsCatchKeepsLoading(p, error) ==
    LET q == [p EXCEPT !.thrown = NoError]
    IN  IF error.name = "TypeError" /\ Includes(error.message, <<"f", "e", "t", "c", "h">>)
        THEN showError(q, MsgUnableToConnect)
        ELSE showError(q, SearchFailedPrefix \o error.message)

\* The catch block with a second fetch(url) issued before the error is shown.
searchTrainsCatchRetries(p, error) ==
    LET q == hideLoading([p EXCEPT !.thrown = NoError, !.fetches = @ + 1])
    IN  IF error.name = "TypeError" /\ Includes(error.message, <<"f", "e", "t", "c", "h">>)
        THEN showError(q, MsgUnableToConnect)
        ELSE showError(q, SearchFailedPrefix \o error.message)

\* The catch block.
searchTrainsCatch(p, error) ==
    LET q == hideLoading([p EXCEPT !.thrown = NoError])
    IN  IF error.name = "TypeError" /\ Includes(error.message, <<"f", "e", "t", "c", "h">>)
        THEN showError(q, MsgUnableToConnect)
        ELSE showError(q, SearchFailedPrefix \o error.message)

\* The URL of the template literal.
SearchUrl(sourceCode, destinationCode) ==
    API_BASE_URL \o SEARCH_ENDPOINT \o QuerySource \o encodeURIComponent(sourceCode)
    \o QueryDestination \o encodeURIComponent(destinationCode)

\* From the call to the first await: the fetch is issued and the invocation
\* is suspended on it.
searchTrainsBegin(p, sourceCode, destinationCode) ==
    LET q == hideResults(hideError(showLoading(p)))
    IN  [q EXCEPT
            !.fetches = @ + 1,
            !.pending = @ \cup {[id |-> q.fetches + 1, at |-> "fetch",
                                 sourceCode |-> sourceCode,
                                 destinationCode |-> destinationCode,
                                 url |-> SearchUrl(sourceCode, destinationCode)]}]

\* searchTrainsAfterFetch without the test of response.ok.
searchTrainsAfterFetchIgnoresStatus(p, inv, settled) ==
    LET q == [p EXCEPT !.pending = @ \ {inv}]
    IN  IF settled.rejected
        THEN searchTrainsCatch(q, settled.error)
        ELSE [q EXCEPT !.pending = @ \cup {[inv EXCEPT !.at = "json"]}]

\* The fetch promise settles: a rejection and a non-OK status go to the
\* catch block, an OK response suspends the invocation on response.json().
searchTrainsAfterFetch(p, inv, settled) ==
    LET q == [p EXCEPT !.pending = @ \ {inv}]
    IN  IF settled.rejected
        THEN searchTrainsCatch(q, settled.error)
        ELSE IF ~Ok(settled.response)
        THEN searchTrainsCatch(q,
                [name |-> "Error",
                 message |-> <<"H", "T", "T", "P", " ">>
                             \o ToString(settled.response.status) \o <<":", " ">>
                             \o settled.response.statusText])
        ELSE [q EXCEPT !.pending = @ \cup {[inv EXCEPT !.at = "json"]}]

\* The branch on the parsed data with !data alone as its test.
RenderDataNullOnly(p, body, sourceCode, destinationCode) ==
    IF body.null
    THEN showNoResults(p, sourceCode, destinationCode)
    ELSE displayResults(p, body.data, sourceCode, destinationCode)

\* The branch on the parsed data.
RenderData(p, body, sourceCode, destinationCode) ==
    IF body.null \/ Len(body.data) = 0
    THEN showNoResults(p, sourceCode, destinationCode)
    ELSE displayResults(p, body.data, sourceCode, destinationCode)

\* The json promise settles.
searchTrainsAfterJson(p, inv, body) ==
    LET q == [p EXCEPT !.pending = @ \ {inv}]
    IN  IF ~body.parsed
        THEN searchTrainsCatch(q, body.error)
        ELSE LET r == RenderData(hideLoading(q), body, inv.sourceCode, inv.destinationCode)
             IN  IF r.thrown # NoError THEN searchTrainsCatch(r, r.thrown) ELSE r

(***************************************************************************)
(* The listeners.                                                          *)
(***************************************************************************)
\* The submit listener without toUpperCase().
submitHandlerCaseSensitive(p, sourceValue, destinationValue) ==
    LET sourceCode == Trim(sourceValue)
        destinationCode == Trim(destinationValue)
    IN  IF sourceCode = <<>> \/ destinationCode = <<>>
        THEN showError(p, MsgEnterBoth)
        ELSE IF sourceCode = destinationCode
        THEN showError(p, MsgSameStation)
        ELSE searchTrainsBegin(p, sourceCode, destinationCode)

\* The submit listener with the results hidden when the submit is rejected.
submitHandlerClearsResults(p, sourceValue, destinationValue) ==
    LET sourceCode == ToUpperCase(Trim(sourceValue))
        destinationCode == ToUpperCase(Trim(destinationValue))
    IN  IF sourceCode = <<>> \/ destinationCode = <<>>
        THEN showError(hideResults(p), MsgEnterBoth)
        ELSE IF sourceCode = destinationCode
        THEN showError(hideResults(p), MsgSameStation)
        ELSE searchTrainsBegin(p, sourceCode, destinationCode)

\* The submit listener, up to its return or to the first await of searchTrains.
submitHandler(p, sourceValue, destinationValue) ==
    LET sourceCode == ToUpperCase(Trim(sourceValue))
        destinationCode == ToUpperCase(Trim(destinationValue))
    IN  IF sourceCode = <<>> \/ destinationCode = <<>>
        THEN showError(p, MsgEnterBoth)
        ELSE IF sourceCode = destinationCode
        THEN showError(p, MsgSameStation)
        ELSE searchTrainsBegin(p, sourceCode, destinationCode)

\* The input listeners without the replace(): toUpperCase() alone.
inputFilterKeepsNonLetters(value) ==
    ToUpperCase(value)

\* The input listeners: value.replace(/[^A-Za-z]/g, '').toUpperCase()
inputFilter(value) ==
    ToUpperCase(SelectSeq(value, IsLetter))

\* The keydown listener without the test of e.key.
keydownHandlerAnyKey(p, key) == hideError(p)

\* The keydown listener.
keydownHandler(p, key) == IF key = "Escape" THEN hideError(p) ELSE p

\* The callback given to setTimeout.
revealCallback(p) == [p EXCEPT !.resultsDisplay = "block", !.timers = @ - 1]

(***************************************************************************)
(* State machine of the page.                                              *)
(***************************************************************************)
Keys == {"Escape", "Tab"}

Show(p) ==
    /\ loadingDisplay' = p.loadingDisplay
    /\ errorDisplay' = p.errorDisplay
    /\ errorText' = p.errorText
    /\ resultsDisplay' = p.resultsDisplay
    /\ routeInfo' = p.routeInfo
    /\ trainsList' = p.trainsList
    /\ timers' = p.timers
    /\ fetches' = p.fetches
    /\ pending' = p.pending

\* The page as loaded.  The script sets no display on load: the inline
\* display of the three panels is the empty string (the stylesheet of the
\* page decides what is seen), and nothing is rendered.
Init ==
    /\ sourceField = <<>>
    /\ destinationField = <<>>
    /\ loadingDisplay = ""
    /\ errorDisplay = ""
    /\ errorText = <<>>
    /\ resultsDisplay = ""
    /\ routeInfo = <<>>
    /\ trainsList = <<>>
    /\ timers = 0
    /\ fetches = 0
    /\ pending = {}
    /\ event = [kind |-> "load"]
    /\ departureTime = <<>>
    /\ arrivalTime = <<>>
    /\ durationOut = <<>>
    /\ timeOut = <<>>

\* A submit event.  At most MaxSearches searches are dispatched in a run.
Submit ==
    \E p \in {submitHandler(Page, sourceField, destinationField)} :
        /\ p.fetches <= MaxSearches
        /\ Show(p)
        /\ event' = [kind |-> "submit"]
        /\ UNCHANGED <<sourceField, destinationField, timeVars>>

\* The user edits the source field: the browser sets the text, the input
\* listener filters it.
InputSource ==
    \E typed \in TypedTexts :
        /\ sourceField' = inputFilter(typed)
        /\ event' = [kind |-> "input"]
        /\ UNCHANGED <<destinationField, loadingDisplay, errorDisplay, errorText,
                       resultsDisplay, routeInfo, trainsList, timers, fetches, pending,
                       timeVars>>

InputDestination ==
    \E typed \in TypedTexts :
        /\ destinationField' = inputFilter(typed)
        /\ event' = [kind |-> "input"]
        /\ UNCHANGED <<sourceField, loadingDisplay, errorDisplay, errorText,
                       resultsDisplay, routeInfo, trainsList, timers, fetches, pending,
                       timeVars>>

\* On load the browser may fill the fields without an input event (restored
\* form data): the values the submit listener reads are then unfiltered,
\* which is what its trim() and toUpperCase() provide for.
RestoreFields ==
    \E s \in Texts, d \in Texts :
        /\ event.kind = "load"
        /\ sourceField' = s
        /\ destinationField' = d
        /\ event' = [kind |-> "restore"]
        /\ UNCHANGED <<loadingDisplay, errorDisplay, errorText, resultsDisplay, routeInfo,
                       trainsList, timers, fetches, pending, timeVars>>

\* The fetch promise of a suspended invocation settles.
FetchSettles ==
    \E inv \in pending, settled \in Settlements :
        /\ inv.at = "fetch"
        /\ \E p \in {searchTrainsAfterFetch(Page, inv, settled)} : Show(p)
        /\ event' = [kind |-> "fetch", inv |-> inv, settled |-> settled]
        /\ UNCHANGED <<sourceField, destinationField, timeVars>>

\* The json promise of a suspended invocation settles.
JsonSettles ==
    \E inv \in pending, body \in Bodies :
        /\ inv.at = "json"
        /\ \E p \in {searchTrainsAfterJson(Page, inv, body)} : Show(p)
        /\ event' = [kind |-> "json", inv |-> inv, body |-> body]
        /\ UNCHANGED <<sourceField, destinationField, timeVars>>

\* A reveal timer fires.
TimerFires ==
    /\ timers > 0
    /\ \E p \in {revealCallback(Page)} : Show(p)
    /\ event' = [kind |-> "timer"]
    /\ UNCHANGED <<sourceField, destinationField, timeVars>>

\* A key is pressed.
KeyDown ==
    \E key \in Keys :
        /\ \E p \in {keydownHandler(Page, key)} : Show(p)
        /\ event' = [kind |-> "keydown", key |-> key]
        /\ UNCHANGED <<sourceField, destinationField, timeVars>>

Next ==
    \/ Submit
    \/ InputSource
    \/ InputDestination
    \/ RestoreFields
    \/ FetchSettles
    \/ JsonSettles
    \/ TimerFires
    \/ KeyDown

Spec == Init /\ [][Next]_vars

\* The page when the fields change through input events only.
NextInput ==
    \/ Submit
    \/ InputSource
    \/ InputDestination
    \/ FetchSettles
    \/ JsonSettles
    \/ TimerFires
    \/ KeyDown

SpecInput == Init /\ [][NextInput]_vars

(***************************************************************************)
(* The pure functions on their own: the arguments are drawn from the       *)
(* well-formed clock times, then each function is called.                  *)
(***************************************************************************)
Minutes == {m \in 0..59 : m % MinuteStep = 0 \/ m = 59}

Clocks == [h : 0..23, m : Minutes]

\* "HH:MM", both parts zero-padded.
HHMM(c) ==
    <<DigitChars[(c.h \div 10) + 1], DigitChars[(c.h % 10) + 1], ":",
      DigitChars[(c.m \div 10) + 1], DigitChars[(c.m % 10) + 1]>>

InitTime ==
    /\ sourceField = <<>>
    /\ destinationField = <<>>
    /\ loadingDisplay = ""
    /\ errorDisplay = ""
    /\ errorText = <<>>
    /\ resultsDisplay = ""
    /\ routeInfo = <<>>
    /\ trainsList = <<>>
    /\ timers = 0
    /\ fetches = 0
    /\ pending = {}
    /\ event = [kind |-> "load"]
    /\ \E d \in Clocks, a \in Clocks :
        /\ departureTime = HHMM(d)
        /\ arrivalTime = HHMM(a)
    /\ durationOut = <<>>
    /\ timeOut = <<>>

CallCalculateDuration ==
    /\ durationOut' = calculateDuration(departureTime, arrivalTime)
    /\ UNCHANGED <<uiVars, departureTime, arrivalTime, timeOut>>

CallFormatTime ==
    /\ timeOut' = formatTime(departureTime)
    /\ UNCHANGED <<uiVars, departureTime, arrivalTime, durationOut>>

NextTime == CallCalculateDuration \/ CallFormatTime

SpecTime == InitTime /\ [][NextTime]_vars

(***************************************************************************)
(* Properties.                                                             *)
(***************************************************************************)
\* The codes the submit listener is specified to compare.
Normalized(value) == ToUpperCase(Trim(value))

\* A submit that is to be rejected: a blank field, or equal codes.
Rejected(sourceValue, destinationValue) ==
    \/ Normalized(sourceValue) = <<>>
    \/ Normalized(destinationValue) = <<>>
    \/ Normalized(sourceValue) = Normalized(destinationValue)

\* The invocation the last event belongs to has run to its end.
InvocationFinished ==
    /\ event.kind \in {"fetch", "json"}
    /\ \A i \in pending : i.id # event.inv.id

\* A number below 100 in decimal, without padding.
Decimal(n) ==
    IF n < 10 THEN <<DigitChars[n + 1]>>
    ELSE <<DigitChars[(n \div 10) + 1], DigitChars[(n % 10) + 1]>>

\* The value of a decimal digit.
DigitValue(c) == CHOOSE n \in 0..9 : DigitChars[n + 1] = c

\* The clock time a well-formed "HH:MM" string denotes, read by position.
ClockOf(s) ==
    [h |-> 10 * DigitValue(s[1]) + DigitValue(s[2]),
     m |-> 10 * DigitValue(s[4]) + DigitValue(s[5])]

\* C1: a submit whose codes, trimmed and upper-cased, are blank or equal
\* issues no fetch and starts no search, and leaves the error panel visible
\* with one of the two validation messages, whatever else is outstanding.
C1_RejectedSubmitIssuesNoRequest ==
    [][(event'.kind = "submit" /\ Rejected(sourceField, destinationField))
        => /\ fetches' = fetches
           /\ pending' = pending
           /\ errorDisplay' = "block"
           /\ errorText' \in {MsgEnterBoth, MsgSameStation}]_vars

\* A submit was rejected for codes that differ only in case, while a search
\* was outstanding.
C1_Witness ==
    /\ event.kind = "submit"
    /\ sourceField # destinationField
    /\ Normalized(sourceField) = Normalized(destinationField)
    /\ pending # {}
    /\ errorDisplay = "block"
    /\ errorText = MsgSameStation

\* C2: the loading indicator is hidden when an invocation of searchTrains
\* has run to its end, on every path, and whenever no search is outstanding:
\* its display is "none" once a search has been made, and before the first
\* search it is the empty string the page was loaded with.
C2_LoadingClears ==
    /\ InvocationFinished => loadingDisplay = "none"
    /\ pending = {} => loadingDisplay = IF fetches = 0 THEN "" ELSE "none"

\* The second of two searches ended on a body that does not parse, and
\* nothing is outstanding.
C2_Witness ==
    /\ event.kind = "json"
    /\ ~event.body.parsed
    /\ event.inv.id = 2
    /\ pending = {}
    /\ loadingDisplay = "none"

\* C3: at most one of the loading indicator, the error panel and the
\* results container is visible.
C3_OnePanelVisible ==
    Cardinality({d \in {<<"loading", loadingDisplay>>, <<"error", errorDisplay>>,
                        <<"results", resultsDisplay>>} : d[2] = "block"}) <= 1

\* C4: while a search is outstanding, neither the error panel nor the
\* results container is visible.
C4_SearchingHidesPanels ==
    pending # {} => errorDisplay = "none" /\ resultsDisplay = "none"

\* C5: an OK response whose body parses to an array of no elements renders
\* the no-trains-found block and the route summary of the submitted codes,
\* makes the results container visible, schedules no reveal timer and
\* leaves the error panel as it was.
C5_EmptyArrayShowsNoResults ==
    [][(/\ event'.kind = "json"
        /\ event'.body.parsed
        /\ ~event'.body.null
        /\ event'.body.data = <<>>)
        => /\ trainsList' = <<[class |-> "no-results",
                               sourceCode |-> event'.inv.sourceCode,
                               destinationCode |-> event'.inv.destinationCode]>>
           /\ routeInfo' = event'.inv.sourceCode \o <<" ", "->", " ">>
                           \o event'.inv.destinationCode
           /\ resultsDisplay' = "block"
           /\ timers' = timers
           /\ errorDisplay' = errorDisplay
           /\ errorText' = errorText]_vars

\* An empty array was received and the no-trains-found block is shown.
C5_Witness ==
    /\ event.kind = "json"
    /\ event.body.parsed
    /\ ~event.body.null
    /\ event.body.data = <<>>
    /\ resultsDisplay = "block"
    /\ Len(trainsList) = 1
    /\ trainsList[1].class = "no-results"
    /\ errorDisplay = "none"

\* C6: a response with a status outside 200..299 ends the invocation at once
\* (the body is never read) with the error panel visible and a message that
\* contains "HTTP <status>: <statusText>", and renders nothing.
C6_HttpErrorShown ==
    [][(/\ event'.kind = "fetch"
        /\ ~event'.settled.rejected
        /\ event'.settled.response.status \notin 200..299)
        => /\ errorDisplay' = "block"
           /\ Includes(errorText',
                       <<"H", "T", "T", "P", " ">>
                       \o ToString(event'.settled.response.status) \o <<":", " ">>
                       \o event'.settled.response.statusText)
           /\ \A i \in pending' : i.id # event'.inv.id
           /\ trainsList' = trainsList
           /\ routeInfo' = routeInfo
           /\ timers' = timers
           /\ resultsDisplay' = resultsDisplay]_vars

\* A 404 was received and its status line is shown.
C6_Witness ==
    /\ event.kind = "fetch"
    /\ ~event.settled.rejected
    /\ event.settled.response.status = 404
    /\ errorDisplay = "block"
    /\ errorText = SearchFailedPrefix
                   \o <<"H", "T", "T", "P", " ", "4", "0", "4", ":", " ",
                        "N", "o", "t", " ", "F", "o", "u", "n", "d">>

\* The data of the last json event makes the renderer throw.
RenderThrows ==
    /\ event.body.parsed
    /\ ~event.body.null
    /\ \E i \in 1..Len(event.body.data) : ReadsUndefined(event.body.data[i])

\* C7: a rejected fetch is always shown with the connectivity message, and a
\* failure of another kind (HTTP status, body that does not parse, exception
\* while rendering) never is.
C7_ConnectivityMessage ==
    /\ (event.kind = "fetch" /\ event.settled.rejected)
        => errorDisplay = "block" /\ errorText = MsgUnableToConnect
    /\ (event.kind = "fetch" /\ ~event.settled.rejected /\ InvocationFinished)
        => errorText # MsgUnableToConnect
    /\ (event.kind = "json" /\ (~event.body.parsed \/ RenderThrows))
        => errorText # MsgUnableToConnect

\* C8: a step issues a request exactly when it is a submit that passes
\* validation, and then it issues one: no completion path issues another.
C8_OneRequestPerSearch ==
    [][fetches' = fetches
                  + (IF event'.kind = "submit" /\ ~Rejected(sourceField, destinationField)
                     THEN 1 ELSE 0)]_vars

\* Two searches were dispatched, the second failed at the transport, and two
\* requests have been issued.
C8_Witness ==
    /\ event.kind = "fetch"
    /\ event.settled.rejected
    /\ event.inv.id = 2
    /\ pending = {}
    /\ fetches = 2

\* C9: for well-formed times calculateDuration returns "<h>h <m>m" with
\* h*60+m the difference of arrival and departure modulo 1440: in 0..1439,
\* m in 0..59 unpadded, and "0h 0m" for equal times.
C9_DurationModuloDay ==
    durationOut # <<>> =>
        LET d == ClockOf(departureTime)
            a == ClockOf(arrivalTime)
            total == ((a.h * 60 + a.m) - (d.h * 60 + d.m)) % 1440
        IN  /\ total \in 0..1439
            /\ total = (IF a.h * 60 + a.m < d.h * 60 + d.m THEN 1440 ELSE 0)
                       + (a.h * 60 + a.m) - (d.h * 60 + d.m)
            /\ durationOut = Decimal(total \div 60) \o <<"h", " ">>
                             \o Decimal(total % 60) \o <<"m">>
            /\ d = a => durationOut = <<"0", "h", " ", "0", "m">>

\* A departure late in the evening and an arrival after midnight.
C9_Witness ==
    /\ departureTime = <<"2", "3", ":", "3", "0">>
    /\ arrivalTime = <<"0", "0", ":", "1", "5">>
    /\ durationOut = <<"0", "h", " ", "4", "5", "m">>

\* C10: for a well-formed time formatTime returns "<hour12>:<MM> <period>":
\* hour12 is HH mod 12, or 12 when that is 0, unpadded; the period is PM
\* exactly from 12:00 on; MM is the minute string of the input.
C10_TwelveHourClock ==
    timeOut # <<>> =>
        LET c == ClockOf(departureTime)
            hour12 == IF c.h % 12 = 0 THEN 12 ELSE c.h % 12
        IN  /\ hour12 \in 1..12
            /\ timeOut = Decimal(hour12) \o <<":">> \o SubSeq(departureTime, 4, 5)
                         \o <<" ">>
                         \o (IF c.h >= 12 THEN <<"P", "M">> ELSE <<"A", "M">>)

\* Noon is formatted as 12:00 PM.
C10_Witness ==
    /\ departureTime = <<"1", "2", ":", "0", "0">>
    /\ timeOut = <<"1", "2", ":", "0", "0", " ", "P", "M">>


\* Every element of the array has what the renderer reads (it is a TripResult).
WellFormed(data) == \A i \in 1..Len(data) : ~ReadsUndefined(data[i])

\* The card is the card of this element.
ShowsTrain(card, trainData) ==
    /\ card.class = "train-card"
    /\ card.trainName = trainData.train.trainName
    /\ card.trainNumber = trainData.train.trainNumber
    /\ card.sourceCode = trainData.source.stationCode
    /\ card.destinationCode = trainData.destination.stationCode

\* The card shows the train of this element, and its stations when the
\* element has them.
CardOf(card, trainData) ==
    /\ card.class = "train-card"
    /\ card.trainName = trainData.train.trainName
    /\ card.trainNumber = trainData.train.trainNumber
    /\ ~ReadsUndefined(trainData)
        => /\ card.sourceCode = trainData.source.stationCode
           /\ card.destinationCode = trainData.destination.stationCode

\* C11: whatever the list held before, after any non-empty sequence is
\* rendered the list holds exactly one card per element, in the order of
\* the sequence, and after the no-trains-found block is rendered it holds
\* no card at all.
C11_RenderReplacesCards ==
    [][(event'.kind = "json" /\ event'.body.parsed)
        => IF event'.body.null \/ event'.body.data = <<>>
           THEN \A i \in 1..Len(trainsList') : trainsList'[i].class # "train-card"
           ELSE /\ Len(trainsList') = Len(event'.body.data)
                /\ \A i \in 1..Len(trainsList') :
                     CardOf(trainsList'[i], event'.body.data[i])]_vars

\* The last event ended an invocation in the catch block.
EndedInError ==
    /\ InvocationFinished
    /\ \/ event.kind = "fetch"
       \/ ~event.body.parsed
       \/ RenderThrows

\* The last event ended an invocation in the no-trains-found block.
EndedEmpty ==
    /\ event.kind = "json"
    /\ event.body.parsed
    /\ event.body.null \/ event.body.data = <<>>

\* C12: when two searches overlap, once both responses are handled and the
\* reveal timers have fired, the page shows the last-resolved response alone.
\* Stated for the order in which the search submitted first resolves last
\* (it was outstanding throughout the other one) and ends in an error or in
\* the no-trains-found block: then only the error panel, or only the results
\* container with that search's block and summary, is visible.
C12_LastResponseWins ==
    (/\ InvocationFinished
     /\ event.inv.id = 1
     /\ fetches = 2
     /\ pending = {}
     /\ timers = 0)
    => /\ EndedInError => errorDisplay = "block" /\ resultsDisplay = "none"
       /\ EndedEmpty
            => /\ errorDisplay = "none"
               /\ resultsDisplay = "block"
               /\ trainsList = <<[class |-> "no-results",
                                  sourceCode |-> event.inv.sourceCode,
                                  destinationCode |-> event.inv.destinationCode]>>
               /\ routeInfo = event.inv.sourceCode \o <<" ", "->", " ">>
                              \o event.inv.destinationCode


\* C13: the loading indicator is visible for as long as a request that was
\* dispatched has not had its completion handled, also when another search
\* completes in between.
C13_LoadingWhileOutstanding ==
    pending # {} => loadingDisplay = "block"


\* C14: an invocation that ends in the catch block (fetch rejected, status
\* not OK, body that does not parse, exception while rendering) leaves the
\* error panel visible with a non-empty message; and a visible error panel
\* is hidden only by an Escape key press or by the start of a new search,
\* never by the completion of another search.
C14_FailuresStayVisible ==
    [][/\ EndedInError' => errorDisplay' = "block" /\ errorText' # <<>>
       /\ (errorDisplay = "block" /\ errorDisplay' = "none")
            => \/ event'.kind = "keydown" /\ event'.key = "Escape"
               \/ event'.kind = "submit" /\ fetches' = fetches + 1]_vars

\* A search failed, and a search overlapping it then completed with an empty
\* array: the failure's message is still shown.
C14_Witness ==
    /\ EndedEmpty
    /\ event.inv.id = 1
    /\ fetches = 2
    /\ pending = {}
    /\ errorDisplay = "block"
    /\ Includes(errorText, SearchFailedPrefix)


\* The text consists of the letters A-Z only.
UpperCaseLetters(text) == \A i \in 1..Len(text) : IndexOf(text[i], UpperLetters) > 0

\* C15: when the fields change through input events only, every invocation
\* of searchTrains has a source code and a destination code that are
\* non-empty, made of the letters A-Z, and different; each field is
\* letters-only and upper-case; and filtering a filtered text changes nothing.
C15_DispatchPreconditions ==
    /\ \A inv \in pending :
        /\ inv.sourceCode # <<>>
        /\ inv.destinationCode # <<>>
        /\ UpperCaseLetters(inv.sourceCode)
        /\ UpperCaseLetters(inv.destinationCode)
        /\ inv.sourceCode # inv.destinationCode
    /\ UpperCaseLetters(sourceField)
    /\ UpperCaseLetters(destinationField)
    /\ \A typed \in TypedTexts : inputFilter(inputFilter(typed)) = inputFilter(typed)

\* A search was dispatched from two fields filled by typing.
C15_Witness ==
    /\ event.kind = "submit"
    /\ sourceField = <<"A">>
    /\ destinationField = <<"B">>
    /\ \E inv \in pending :
        inv.sourceCode = <<"A">> /\ inv.destinationCode = <<"B">> /\ inv.at = "fetch"


\* C16: a key press changes nothing but the error panel's visibility:
\* Escape hides the panel, any other key leaves it as it is; the message,
\* the loading indicator, the results container, the route summary, the
\* card list, the outstanding requests and the reveal timers are unchanged.
C16_EscapeHidesErrorOnly ==
    [][event'.kind = "keydown"
        => /\ event'.key = "Escape" => errorDisplay' = "none"
           /\ event'.key # "Escape" => errorDisplay' = errorDisplay
           /\ UNCHANGED <<errorText, loadingDisplay, resultsDisplay, routeInfo,
                          trainsList, pending, timers, fetches, sourceField,
                          destinationField>>]_vars

\* The only search failed at the transport, which showed the error panel,
\* and Escape has hidden it.
C16_Witness ==
    /\ event.kind = "keydown"
    /\ event.key = "Escape"
    /\ fetches = 1
    /\ pending = {}
    /\ errorText = MsgUnableToConnect
    /\ errorDisplay = "none"


\* C17: a rejected submit changes the error panel alone: the results
\* container's visibility, the route summary, the card list, the loading
\* indicator, the outstanding requests and the timers are as they were.
C17_RejectedSubmitKeepsPage ==
    [][(event'.kind = "submit" /\ Rejected(sourceField, destinationField))
        => UNCHANGED <<resultsDisplay, routeInfo, trainsList, loadingDisplay,
                       pending, timers, fetches>>]_vars

\* A submit was rejected while the cards of a search were shown: they
\* still are, next to the validation message.
C17_Witness ==
    /\ event.kind = "submit"
    /\ Rejected(sourceField, destinationField)
    /\ errorDisplay = "block"
    /\ errorText \in {MsgEnterBoth, MsgSameStation}
    /\ resultsDisplay = "block"
    /\ Len(trainsList) = 2
    /\ trainsList[1].class = "train-card"


\* The summary names the source and the destination of this element.
SummaryOf(summary, trainData) ==
    /\ Includes(summary, trainData.source.stationName \o <<" ", "(">>
                         \o trainData.source.stationCode \o <<")">>)
    /\ Includes(summary, trainData.destination.stationName \o <<" ", "(">>
                         \o trainData.destination.stationCode \o <<")">>)

\* The summary and the list are those of the no-trains-found block of inv.
BothFromEmpty(summary, list, inv) ==
    /\ list = <<[class |-> "no-results", sourceCode |-> inv.sourceCode,
                 destinationCode |-> inv.destinationCode]>>
    /\ summary = inv.sourceCode \o <<" ", "->", " ">> \o inv.destinationCode

\* The summary is that of the first element and the list holds the cards of
\* the first n elements, in order.
BothFromData(summary, list, data, n) ==
    /\ SummaryOf(summary, data[1])
    /\ Len(list) = n
    /\ \A i \in 1..n : ShowsTrain(list[i], data[i])

\* C18: the route summary and the card list change only together and only
\* by a successful response: a non-empty one writes the summary from its
\* first element and the cards from all its elements, an empty one writes
\* both from the no-trains-found block; a failed search changes neither.
C18_SummaryAndCardsTogether ==
    [][\/ UNCHANGED <<routeInfo, trainsList>>
       \/ /\ event'.kind = "json"
          /\ event'.body.parsed
          /\ ~EndedInError'
          /\ IF event'.body.null \/ event'.body.data = <<>>
             THEN BothFromEmpty(routeInfo', trainsList', event'.inv)
             ELSE BothFromData(routeInfo', trainsList', event'.body.data,
                               Len(event'.body.data))]_vars


\* C19: when a successful non-empty response has been rendered, the results
\* container is still hidden; it becomes visible only when the reveal timer
\* of that response fires.
C19_RenderedResultsStayHidden ==
    (/\ event.kind = "json"
     /\ event.body.parsed
     /\ ~event.body.null
     /\ event.body.data # <<>>
     /\ WellFormed(event.body.data))
        => resultsDisplay = "none"

=============================================================================
